---- MODULE Spec2Model ----
(***************************************************************************)
(* Model of src/src/utils/blockchain.ts: building, fee-estimating and      *)
(* multi-signing an ERC-4337 v0.7 user operation                           *)
(* (buildAndSignMultisigUserOp) and packing the signatures                 *)
(* (buildMultiSigUserOp).                                                  *)
(*                                                                         *)
(* Representation.  A hex string `0x...` is the sequence of its hex digits *)
(* (0..15) after the 0x prefix, so '0x' is << >>.  A JavaScript value that *)
(* may be undefined is None (<< >>) or Some(x) (<< x >>).  A bigint is an  *)
(* integer; gasFeesMultiplier, a JavaScript number, is counted in          *)
(* thousandths (1200 is 1.2).  Addresses are hex strings of reduced width  *)
(* (two digits).  Each action is the code run between two awaits: it is    *)
(* named after the awaited call whose answer it consumes.                  *)
(***************************************************************************)
EXTENDS Integers, Sequences, FiniteSets, TLC

VARIABLES
    pc,                          \* the awaited call, or "start", "done", "exited", "rejected"
    signerAddresses,             \* input: the ordered list of Signer
    gasFeesMultiplier,           \* input, in thousandths
    alchemyBundler,              \* input: isAlchemyBundler(bundlerRPCUrl)
    partialUserOp,               \* line 252
    partialUserOpWithGas,        \* line 261
    userOpToSign,                \* line 269
    i,                           \* line 264
    signatures,                  \* line 250
    feesPerGas,                  \* line 154
    partialUserOpForEstimate,    \* line 205
    partialUserOpHash,           \* line 84
    result,                      \* the value the promise resolves to, None before
    error,                       \* why the run failed, "none" otherwise
    trace,                       \* history: the external calls issued and their returns
    signed,                      \* history: signer, raw signature and signed operation, in signing order
    alchemyHexResult,            \* line 186, None before the provider answered or without a result
    parked,                      \* the locals of a second invocation, suspended at an await
    hashPc,                      \* the hasher's packing driven alone: "input", "packed"
    hashUserOp,                  \* its userOp argument, the gas and fee fields as bigints
    hashOut,                     \* the fields it built
    packPc,                      \* the packer driven alone: "input", "packed"
    packUserOp,                  \* its userOp argument
    packA,                       \* its signatures argument, one ordering
    packB,                       \* the same entries in another ordering
    packOutA,                    \* the outcome for packA
    packOutB                     \* the outcome for packB

mainVars == << pc, signerAddresses, gasFeesMultiplier, alchemyBundler, partialUserOp,
               partialUserOpWithGas, userOpToSign, i, signatures, feesPerGas,
               partialUserOpForEstimate, partialUserOpHash, result, error, trace,
               signed, alchemyHexResult >>
packVars == << packPc, packUserOp, packA, packB, packOutA, packOutB >>
hashVars == << hashPc, hashUserOp, hashOut >>
vars == << mainVars, packVars, hashVars, parked >>

-----------------------------------------------------------------------------
(* Bounds *)

MaxSigners == 2
MaxEntries == 2

-----------------------------------------------------------------------------
(* JavaScript values *)

None == << >>
Some(x) == << x >>
Undefined == "undefined"

\* !x on a bigint | undefined: true for undefined and for 0n
Falsy(opt) == opt = None \/ opt[1] = 0

Min(a, b) == IF a < b THEN a ELSE b

RECURSIVE Pow(_, _)
Pow(b, e) == IF e = 0 THEN 1 ELSE b * Pow(b, e - 1)

RECURSIVE Repeat(_, _)
\* String.prototype.repeat
Repeat(s, n) == IF n = 0 THEN << >> ELSE s \o Repeat(s, n - 1)

Fill(d, n) == [k \in 1..n |-> d]

RECURSIVE HexToBigInt(_)
\* viem hexToBigInt / BigInt('0x..'): the digits read as an unsigned integer
HexToBigInt(h) ==
    IF Len(h) = 0 THEN 0
    ELSE 16 * HexToBigInt(SubSeq(h, 1, Len(h) - 1)) + h[Len(h)]

RECURSIVE ToHex(_)
\* viem toHex(value) without size: value.toString(16), '0x0' for 0
ToHex(n) == IF n < 16 THEN << n >> ELSE ToHex(n \div 16) \o << n % 16 >>

\* viem toHex(value, { size }): throws IntegerOutOfRangeError outside 0 .. 2^(8*size)-1,
\* otherwise the digits left-padded to size bytes.  value is None for NaN (BigInt(NaN) throws).
ToHexSized(value, size) ==
    IF value = None \/ value[1] < 0 \/ value[1] > Pow(2, 8 * size) - 1
    THEN [threw |-> TRUE, hex |-> << >>]
    ELSE [threw |-> FALSE,
          hex |-> Fill(0, 2 * size - Len(ToHex(value[1]))) \o ToHex(value[1])]

\* mutant of Pad: the zeros are put behind the digits
Pad_Right(h, size) ==
    IF Len(h) > 2 * size
    THEN [threw |-> TRUE, hex |-> << >>]
    ELSE [threw |-> FALSE, hex |-> h \o Fill(0, 2 * size - Len(h))]

\* viem pad(hex, { size }): left-pads to size bytes, throws when the value is longer
Pad(h, size) ==
    IF Len(h) > 2 * size
    THEN [threw |-> TRUE, hex |-> << >>]
    ELSE [threw |-> FALSE, hex |-> Fill(0, 2 * size - Len(h)) \o h]

\* parseInt('0x..'): NaN (None) when no digit follows the prefix
ParseInt(h) == IF Len(h) = 0 THEN None ELSE Some(HexToBigInt(h))

-----------------------------------------------------------------------------
(* Inputs and the answers of the external collaborators *)

SignerAddrs == { << 1, 1 >>, << 10, 10 >>, << 1, 10 >> }
Signers == { [address |-> a, privateKey |-> << "key", a >>] : a \in SignerAddrs }
WalletAddress == << 12, 12 >>
CallData == << 13, 14 >>
GasFeesMultipliers == { 500, 1000, 1200, 1256 }

RECURSIVE SeqsUpTo(_, _)
\* the sequences over S of length at most n
SeqsUpTo(S, n) ==
    IF n = 0 THEN { << >> }
    ELSE LET shorter == SeqsUpTo(S, n - 1)
         IN  shorter \cup { Append(q, x) : q \in shorter, x \in S }

\* getAccountNonce
Nonces == { 0, 5 }
\* publicClient.estimateFeesPerGas(): each fee a bigint or undefined
FeeOracleValues == { None, Some(0), Some(7), Some(1000) }
\* the `result` member of the rundler_maxPriorityFeePerGas answer: a hex string or undefined
AlchemyResults == { None, Some(<< 0 >>), Some(<< 1, 15, 4 >>), Some(<< 7, 13, 0 >>) }
\* estimateUserOperationGas
GasLimitResponses ==
    { [callGasLimit |-> 100000, verificationGasLimit |-> 200000, preVerificationGas |-> 46680] }

\* r||s of a signature, 64 bytes.  A signature recovers to the address of the key that
\* made it: its leading digits are that address here, the rest varies with k.
RS(address, k) == address \o [j \in 1..(128 - Len(address)) |-> (j + k) % 16]
Recover(rs) == SubSeq(rs, 1, 2)
\* ethers Wallet.signMessage (line 92): 65 bytes r||s||v with v 27 or 28; r||s is decided
\* by the key and the hash
SignMessageResults(signer, hash) ==
    { RS(signer.address, hash.digest) \o ToHex(v) : v \in { 27, 28 } }

-----------------------------------------------------------------------------
(* getUserOpHash, lines 30-76 *)

\* lines 34-59: the PackedUserOperation handed to the entry point
PackedUserOp(userOp) ==
    LET initCode == IF userOp.factory # Undefined /\ userOp.factoryData # Undefined
                    THEN userOp.factory \o userOp.factoryData
                    ELSE << >>
        vgl == Pad(ToHex(userOp.verificationGasLimit), 16)
        cgl == Pad(ToHex(userOp.callGasLimit), 16)
        prio == Pad(ToHex(userOp.maxPriorityFeePerGas), 16)
        maxFee == Pad(ToHex(userOp.maxFeePerGas), 16)
    IN  [threw |-> vgl.threw \/ cgl.threw \/ prio.threw \/ maxFee.threw,
         packed |-> [sender |-> userOp.sender,
                     nonce |-> userOp.nonce,
                     callData |-> userOp.callData,
                     accountGasLimits |-> vgl.hex \o cgl.hex,
                     initCode |-> initCode,
                     preVerificationGas |-> userOp.preVerificationGas,
                     gasFees |-> prio.hex \o maxFee.hex,
                     paymasterAndData |-> << >>,
                     signature |-> userOp.signature]]

\* the entry point's getUserOpHash: a function of the packed operation
EntryPointHash(packed) ==
    [hashOf |-> packed,
     digest |-> (packed.nonce + packed.preVerificationGas + HexToBigInt(packed.sender)
                 + Len(packed.signature)
                 + HexToBigInt(SubSeq(packed.gasFees, 60, 64))
                 + HexToBigInt(SubSeq(packed.accountGasLimits, 60, 64))) % 16]

-----------------------------------------------------------------------------
(* getPartialUserOp, lines 100-133 *)

\* lines 112-125
PartialUserOp(senderAddress, nonce, callData) ==
    [sender |-> senderAddress,
     nonce |-> nonce,
     factory |-> Undefined,
     factoryData |-> Undefined,
     callData |-> callData,
     maxPriorityFeePerGas |-> 0,
     maxFeePerGas |-> 0,
     callGasLimit |-> 0,
     verificationGasLimit |-> 0,
     preVerificationGas |-> 0,
     signature |-> << >>]

\* mutant of NonceIsZero: the deployed-account check left out
NonceIsZero_Never(nonce) == FALSE

\* line 127
NonceIsZero(nonce) == nonce = 0

NoUserOp == PartialUserOp(<< >>, 0, << >>)

-----------------------------------------------------------------------------
(* estimateUserOp, lines 135-240 *)

\* line 156
FeesMissing(fees) == Falsy(fees.maxFeePerGas) \/ Falsy(fees.maxPriorityFeePerGas)

\* line 160, the multiplier in thousandths
MultiplierTooSmall(m) == m < 1000

\* mutant of AlchemyMaxPriorityFeePerGas: the provider's answer is dropped
AlchemyMaxPriorityFeePerGas_Zero(hexResult) == 0

\* line 189
AlchemyMaxPriorityFeePerGas(hexResult) ==
    IF hexResult # None THEN HexToBigInt(hexResult[1]) ELSE 0

\* line 193: Math.round((gasFeesMultiplier - 1) * 100), halves rounded up.  The multipliers
\* of the model are thousandths off a half, so the floating-point error of the subtraction
\* does not change the rounding.
PercentageIncrease(m) == (m - 1000 + 5) \div 10

\* line 194
ScaledGasFeesMultiplier(m) == 100 + PercentageIncrease(m)

\* lines 195-196: bigint multiplication and division
ScaleFee(fee, m) == (fee * ScaledGasFeesMultiplier(m)) \div 100

\* helpers.js maxBigInt
MaxBigInt(a, b) == IF a > b THEN a ELSE b

\* line 215: one 65-byte filler block
PlaceholderBlock ==
    Fill(15, 31) \o Fill(0, 33) \o << 7 >> \o Fill(10, 63) \o << 3, 12 >>

\* mutant of PartialUserOpForEstimate: the call data is not carried over
PartialUserOpForEstimate_NoCallData(userOp, fees, alchemyMax, numSigners, m) ==
    [sender |-> userOp.sender,
     nonce |-> userOp.nonce,
     factory |-> userOp.factory,
     factoryData |-> userOp.factoryData,
     callData |-> << >>,
     maxPriorityFeePerGas |->
         MaxBigInt(ScaleFee(fees.maxPriorityFeePerGas[1], m), alchemyMax),
     maxFeePerGas |-> ScaleFee(fees.maxFeePerGas[1], m),
     signature |-> Repeat(PlaceholderBlock, numSigners),
     callGasLimit |-> 0,
     verificationGasLimit |-> 0,
     preVerificationGas |-> 0]

\* mutant of PartialUserOpForEstimate: the placeholder is sized for the signatures collected
\* so far
PartialUserOpForEstimate_SizedByCollected(userOp, fees, alchemyMax, numSigners, m) ==
    [sender |-> userOp.sender,
     nonce |-> userOp.nonce,
     factory |-> userOp.factory,
     factoryData |-> userOp.factoryData,
     callData |-> userOp.callData,
     maxPriorityFeePerGas |->
         MaxBigInt(ScaleFee(fees.maxPriorityFeePerGas[1], m), alchemyMax),
     maxFeePerGas |-> ScaleFee(fees.maxFeePerGas[1], m),
     signature |-> Repeat(PlaceholderBlock, Len(signatures)),
     callGasLimit |-> 0,
     verificationGasLimit |-> 0,
     preVerificationGas |-> 0]

\* lines 193-219
PartialUserOpForEstimate(userOp, fees, alchemyMax, numSigners, m) ==
    [sender |-> userOp.sender,
     nonce |-> userOp.nonce,
     factory |-> userOp.factory,
     factoryData |-> userOp.factoryData,
     callData |-> userOp.callData,
     maxPriorityFeePerGas |->
         MaxBigInt(ScaleFee(fees.maxPriorityFeePerGas[1], m), alchemyMax),
     maxFeePerGas |-> ScaleFee(fees.maxFeePerGas[1], m),
     signature |-> Repeat(PlaceholderBlock, numSigners),
     callGasLimit |-> 0,
     verificationGasLimit |-> 0,
     preVerificationGas |-> 0]

\* mutant of EstimatedSignature: the spread keeps the placeholder
EstimatedSignature_Kept(forEstimate) == forEstimate.signature

\* line 235
EstimatedSignature(forEstimate) == << >>

\* lines 226-236
PartialUserOpWithGas(forEstimate, gasLimits) ==
    [forEstimate EXCEPT !.callGasLimit = gasLimits.callGasLimit,
                        !.verificationGasLimit = gasLimits.verificationGasLimit,
                        !.preVerificationGas = gasLimits.preVerificationGas,
                        !.signature = EstimatedSignature(forEstimate)]

-----------------------------------------------------------------------------
(* buildMultiSigUserOp, lines 301-344 *)

\* mutant of TakeBytes: the count is ignored, the slice runs to the end of the string
TakeBytes_NoCount(bytes, offset, count) ==
    LET start == (IF offset # 0 THEN offset * 2 ELSE 0) + 2
    IN  IF start >= Len(bytes) + 2 THEN << >> ELSE SubSeq(bytes, start - 1, Len(bytes))

\* lines 308-313.  The argument is the string after its 0x prefix, so the character at
\* JavaScript index c is the digit at c - 1 here; an omitted offset or count is 0, which
\* the code treats like undefined.
TakeBytes(bytes, offset, count) ==
    LET start == (IF offset # 0 THEN offset * 2 ELSE 0) + 2
        end == IF count # 0 THEN Min(start + count * 2, Len(bytes) + 2) ELSE Len(bytes) + 2
    IN  IF start >= end THEN << >> ELSE SubSeq(bytes, start - 1, end - 2)

\* mutant of CompareSigners: descending order
CompareSigners_Descending(a, b) ==
    LET bigintA == HexToBigInt(a.signer)
        bigintB == HexToBigInt(b.signer)
    IN  IF bigintA < bigintB THEN 1 ELSE IF bigintA > bigintB THEN -1 ELSE 0

\* lines 317-321: the comparator of the sort
CompareSigners(a, b) ==
    LET bigintA == HexToBigInt(a.signer)
        bigintB == HexToBigInt(b.signer)
    IN  IF bigintA < bigintB THEN -1 ELSE IF bigintA > bigintB THEN 1 ELSE 0

RECURSIVE InsertSorted(_, _)
\* e put behind every element that does not compare greater than it
InsertSorted(sorted, e) ==
    IF Len(sorted) = 0 THEN << e >>
    ELSE IF CompareSigners(e, sorted[Len(sorted)]) < 0
         THEN Append(InsertSorted(SubSeq(sorted, 1, Len(sorted) - 1), e), sorted[Len(sorted)])
         ELSE Append(sorted, e)

\* mutant of SortSignatures: the entries are packed in the order given
SortSignatures_Unsorted(sigs) == sigs

RECURSIVE SortSignatures(_)
\* line 317: Array.prototype.sort, which is stable
SortSignatures(sigs) ==
    IF Len(sigs) = 0 THEN << >>
    ELSE InsertSorted(SortSignatures(SubSeq(sigs, 1, Len(sigs) - 1)), sigs[Len(sigs)])

\* mutant of AddV: the last signer's v is not raised
AddV_Zero(sig) == 0

\* line 325
AddV(sig) == IF sig.userOpSigType = "ACTUAL" THEN 32 ELSE 0

\* lines 325-334: the block one entry contributes, or the throw of toHex
PackEntry(sig) ==
    LET parsed == ParseInt(TakeBytes(sig.signature, 64, 1))
        v == IF parsed = None THEN None ELSE Some(parsed[1] + AddV(sig))
        vHex == ToHexSized(v, 1)
    IN  [threw |-> vHex.threw,
         hex |-> TakeBytes(sig.signature, 0, 64) \o vHex.hex]

RECURSIVE ConcatBlocks(_)
\* line 331: eoaSigs += ...
ConcatBlocks(blocks) ==
    IF Len(blocks) = 0 THEN << >>
    ELSE ConcatBlocks(SubSeq(blocks, 1, Len(blocks) - 1)) \o blocks[Len(blocks)].hex

\* mutant of FinalUserOp: the gas limits are not carried over
FinalUserOp_DropsGas(multiSigUserOp, eoaSigs) ==
    [multiSigUserOp EXCEPT !.signature = eoaSigs,
                           !.callGasLimit = 0,
                           !.verificationGasLimit = 0,
                           !.preVerificationGas = 0]

\* lines 305 and 337-340: a copy of the operation with the signature replaced
FinalUserOp(multiSigUserOp, eoaSigs) == [multiSigUserOp EXCEPT !.signature = eoaSigs]

\* lines 301-344: the outcome, and the signatures array as the in-place sort leaves it
BuildMultiSigUserOp(userOp, sigs) ==
    LET sorted == SortSignatures(sigs)
        blocks == [k \in 1..Len(sorted) |-> PackEntry(sorted[k])]
        threw == \E k \in 1..Len(sorted) : blocks[k].threw
    IN  [threw |-> threw,
         signatures |-> sorted,
         userOp |-> IF threw THEN NoUserOp
                    ELSE FinalUserOp(userOp, ConcatBlocks(blocks))]

-----------------------------------------------------------------------------
(* buildAndSignMultisigUserOp, lines 242-299, one action per awaited call *)

numSigners == Len(signerAddresses)

\* mutant of IsLastSigner: the first signer is taken for the last
IsLastSigner_First(idx, n) == idx = 0

\* line 266
IsLastSigner(idx, n) == idx = n - 1

\* mutant of UserOpSigType: every entry is marked ACTUAL
UserOpSigType_AllActual(idx, n) == "ACTUAL"

\* line 289
UserOpSigType(idx, n) == IF IsLastSigner(idx, n) THEN "ACTUAL" ELSE Undefined

Event(call, idx, userOp) == [call |-> call, i |-> idx, userOp |-> userOp]

\* logger.js logAndExit: logs the message and ends the process, so nothing is returned
LogAndExit(kind) ==
    /\ pc' = "exited"
    /\ error' = kind

\* an awaited call throws: the promise of buildAndSignMultisigUserOp rejects
Reject(kind) ==
    /\ pc' = "rejected"
    /\ error' = kind

\* lines 264-296 from the head of iteration idx up to the next await: the last signer
\* enters estimateUserOp (line 270, awaiting estimateFeesPerGas at line 154), another
\* signer enters signUserOp with the base operation (awaiting readContract at line 67),
\* and past the last signer the packer is called (line 293).
LoopHead(idx, base, withGas, tr) ==
    IF idx < numSigners
    THEN IF IsLastSigner(idx, numSigners)
         THEN /\ pc' = "estimateFeesPerGas"
              /\ trace' = Append(tr, Event("estimateFeesPerGas", idx, base))
              /\ partialUserOpWithGas' = withGas
              /\ UNCHANGED userOpToSign
         ELSE /\ pc' = "readContract"
              /\ userOpToSign' = base
              /\ partialUserOpWithGas' = base
              /\ trace' = Append(tr, Event("readContract", idx, base))
    ELSE /\ pc' = "buildMultiSigUserOp"
         /\ trace' = tr
         /\ partialUserOpWithGas' = withGas
         /\ UNCHANGED userOpToSign

\* line 252: the call; getPartialUserOp awaits getAccountNonce (line 114)
BuildAndSignMultisigUserOp ==
    /\ pc = "start"
    /\ pc' = "getAccountNonce"
    /\ trace' = Append(trace, Event("getAccountNonce", 0, NoUserOp))
    /\ UNCHANGED << signerAddresses, gasFeesMultiplier, alchemyBundler, partialUserOp,
                    partialUserOpWithGas, userOpToSign, i, signatures, feesPerGas,
                    partialUserOpForEstimate, partialUserOpHash, result, error >>
    /\ UNCHANGED << signed, alchemyHexResult >>
    /\ UNCHANGED << packVars, hashVars, parked >>

\* lines 112-132 and 259-264
GetAccountNonceReturns ==
    /\ pc = "getAccountNonce"
    /\ \/ /\ Reject("NonceFetchError")
          /\ UNCHANGED << partialUserOp, partialUserOpWithGas, userOpToSign, i, trace >>
       \/ \E nonce \in Nonces :
            LET userOp == PartialUserOp(WalletAddress, nonce, CallData)
            IN  IF NonceIsZero(nonce)
                THEN /\ LogAndExit("UndeployedAccount")
                     /\ trace' = Append(trace, Event("getAccountNonce.return", 0, userOp))
                     /\ UNCHANGED << partialUserOp, partialUserOpWithGas, userOpToSign, i >>
                ELSE /\ partialUserOp' = userOp
                     /\ i' = 0
                     /\ LoopHead(0, userOp, userOp,
                                 Append(trace, Event("getAccountNonce.return", 0, userOp)))
                     /\ UNCHANGED error
    /\ UNCHANGED << signerAddresses, gasFeesMultiplier, alchemyBundler, signatures,
                    feesPerGas, partialUserOpForEstimate, partialUserOpHash, result >>
    /\ UNCHANGED << signed, alchemyHexResult >>
    /\ UNCHANGED << packVars, hashVars, parked >>

\* lines 154-162, then 164-179 for the known provider or 164-221 otherwise
EstimateFeesPerGasReturns ==
    /\ pc = "estimateFeesPerGas"
    /\ \/ /\ Reject("FeeOracleError")
          /\ UNCHANGED << feesPerGas, partialUserOpForEstimate, trace >>
       \/ \E maxFee \in FeeOracleValues, prio \in FeeOracleValues :
            LET fees == [maxFeePerGas |-> maxFee, maxPriorityFeePerGas |-> prio]
                forEstimate == PartialUserOpForEstimate(partialUserOp, fees, 0, numSigners,
                                                        gasFeesMultiplier)
            IN  /\ feesPerGas' = fees
                /\ IF FeesMissing(fees)
                   THEN /\ LogAndExit("FeeFetchError")
                        /\ UNCHANGED << partialUserOpForEstimate, trace >>
                   ELSE IF MultiplierTooSmall(gasFeesMultiplier)
                   THEN /\ LogAndExit("InvalidConfig")
                        /\ UNCHANGED << partialUserOpForEstimate, trace >>
                   ELSE IF alchemyBundler
                   THEN /\ pc' = "fetch"
                        /\ trace' = Append(trace, Event("fetch", i, partialUserOp))
                        /\ UNCHANGED << partialUserOpForEstimate, error >>
                   ELSE /\ pc' = "estimateUserOperationGas"
                        /\ partialUserOpForEstimate' = forEstimate
                        /\ trace' = Append(trace, Event("estimateUserOperationGas", i,
                                                        forEstimate))
                        /\ UNCHANGED error
    /\ UNCHANGED << signerAddresses, gasFeesMultiplier, alchemyBundler, partialUserOp,
                    partialUserOpWithGas, userOpToSign, i, signatures, partialUserOpHash,
                    result >>
    /\ UNCHANGED << signed, alchemyHexResult >>
    /\ UNCHANGED << packVars, hashVars, parked >>

\* lines 179-221
FetchReturns ==
    /\ pc = "fetch"
    /\ \/ /\ Reject("ProviderQueryError")
          /\ UNCHANGED << partialUserOpForEstimate, trace, alchemyHexResult >>
       \/ \E hexResult \in AlchemyResults :
            LET forEstimate ==
                    PartialUserOpForEstimate(partialUserOp, feesPerGas,
                                             AlchemyMaxPriorityFeePerGas(hexResult),
                                             numSigners, gasFeesMultiplier)
            IN  /\ alchemyHexResult' = hexResult
                /\ pc' = "estimateUserOperationGas"
                /\ partialUserOpForEstimate' = forEstimate
                /\ trace' = trace \o << Event("fetch.return", i, partialUserOp),
                                        Event("estimateUserOperationGas", i, forEstimate) >>
                /\ UNCHANGED error
    /\ UNCHANGED << signerAddresses, gasFeesMultiplier, alchemyBundler, partialUserOp,
                    partialUserOpWithGas, userOpToSign, i, signatures, feesPerGas,
                    partialUserOpHash, result >>
    /\ UNCHANGED signed
    /\ UNCHANGED << packVars, hashVars, parked >>

\* lines 221-239, back in the loop lines 269-288, into signUserOp up to line 67
EstimateUserOperationGasReturns ==
    /\ pc = "estimateUserOperationGas"
    /\ \/ /\ Reject("EstimationError")
          /\ UNCHANGED << partialUserOpWithGas, userOpToSign, trace >>
       \/ \E gasLimits \in GasLimitResponses :
            LET withGas == PartialUserOpWithGas(partialUserOpForEstimate, gasLimits)
            IN  /\ userOpToSign' = withGas
                /\ partialUserOpWithGas' = withGas
                /\ pc' = "readContract"
                /\ trace' = trace \o << Event("estimateUserOp.return", i, withGas),
                                        Event("readContract", i, withGas) >>
                /\ UNCHANGED error
    /\ UNCHANGED << signerAddresses, gasFeesMultiplier, alchemyBundler, partialUserOp, i,
                    signatures, feesPerGas, partialUserOpForEstimate, partialUserOpHash,
                    result >>
    /\ UNCHANGED << signed, alchemyHexResult >>
    /\ UNCHANGED << packVars, hashVars, parked >>

\* lines 67-75 and 84-94
ReadContractReturns ==
    /\ pc = "readContract"
    /\ \/ /\ Reject("EstimationError")
          /\ UNCHANGED << partialUserOpHash, trace >>
       \/ /\ partialUserOpHash' = Some(EntryPointHash(PackedUserOp(userOpToSign).packed))
          /\ pc' = "signMessage"
          /\ trace' = Append(trace, Event("signMessage", i, userOpToSign))
          /\ UNCHANGED error
    /\ UNCHANGED << signerAddresses, gasFeesMultiplier, alchemyBundler, partialUserOp,
                    partialUserOpWithGas, userOpToSign, i, signatures, feesPerGas,
                    partialUserOpForEstimate, result >>
    /\ UNCHANGED << signed, alchemyHexResult >>
    /\ UNCHANGED << packVars, hashVars, parked >>

\* lines 92-97, 289, and the next iteration up to its first await
SignMessageReturns ==
    /\ pc = "signMessage"
    /\ \/ /\ Reject("SigningError")
          /\ UNCHANGED << partialUserOpWithGas, userOpToSign, i, signatures, trace,
                          signed >>
       \/ \E signature \in SignMessageResults(signerAddresses[i + 1], partialUserOpHash[1]) :
            /\ signed' = Append(signed, [signer |-> signerAddresses[i + 1].address,
                                         signature |-> signature,
                                         userOp |-> userOpToSign])
            /\ signatures' = Append(signatures,
                                    [signer |-> signerAddresses[i + 1].address,
                                     signature |-> signature,
                                     userOpSigType |-> UserOpSigType(i, numSigners)])
            /\ i' = i + 1
            /\ LoopHead(i + 1, partialUserOp, partialUserOpWithGas,
                        Append(trace, Event("signMessage.return", i, userOpToSign)))
            /\ UNCHANGED error
    /\ UNCHANGED << signerAddresses, gasFeesMultiplier, alchemyBundler, partialUserOp,
                    feesPerGas, partialUserOpForEstimate, partialUserOpHash, result,
                    alchemyHexResult >>
    /\ UNCHANGED << packVars, hashVars, parked >>

\* lines 293-298
BuildMultiSigUserOpReturns ==
    /\ pc = "buildMultiSigUserOp"
    /\ LET out == BuildMultiSigUserOp(partialUserOpWithGas, signatures)
       IN  /\ signatures' = out.signatures
           /\ IF out.threw
              THEN /\ Reject("PackingError")
                   /\ UNCHANGED result
              ELSE /\ pc' = "done"
                   /\ result' = Some(out.userOp)
                   /\ UNCHANGED error
    /\ UNCHANGED << signerAddresses, gasFeesMultiplier, alchemyBundler, partialUserOp,
                    partialUserOpWithGas, userOpToSign, i, feesPerGas,
                    partialUserOpForEstimate, partialUserOpHash, trace >>
    /\ UNCHANGED << signed, alchemyHexResult >>
    /\ UNCHANGED << packVars, hashVars, parked >>

PackIdle ==
    /\ packPc = "idle"
    /\ packUserOp = NoUserOp
    /\ packA = << >>
    /\ packB = << >>
    /\ packOutA = None
    /\ packOutB = None

HashIdle ==
    /\ hashPc = "idle"
    /\ hashUserOp = NoUserOp
    /\ hashOut = None

\* the locals of an invocation, and those of one that was never made
Locals(p, sa, m, ab, pu, pg, us, idx, sigs, fees, fe, h, res, err, tr, sgd, ahr) ==
    [pc |-> p, signerAddresses |-> sa, gasFeesMultiplier |-> m, alchemyBundler |-> ab,
     partialUserOp |-> pu, partialUserOpWithGas |-> pg, userOpToSign |-> us, i |-> idx,
     signatures |-> sigs, feesPerGas |-> fees, partialUserOpForEstimate |-> fe,
     partialUserOpHash |-> h, result |-> res, error |-> err, trace |-> tr, signed |-> sgd,
     alchemyHexResult |-> ahr]
NotCalled ==
    Locals("idle", << >>, 1000, FALSE, NoUserOp, NoUserOp, NoUserOp, 0, << >>,
           [maxFeePerGas |-> None, maxPriorityFeePerGas |-> None], NoUserOp, None, None,
           "none", << >>, << >>, None)

Init ==
    /\ pc = "start"
    /\ signerAddresses \in SeqsUpTo(Signers, MaxSigners)
    /\ gasFeesMultiplier \in GasFeesMultipliers
    /\ alchemyBundler \in BOOLEAN
    /\ partialUserOp = NoUserOp
    /\ partialUserOpWithGas = NoUserOp
    /\ userOpToSign = NoUserOp
    /\ i = 0
    /\ signatures = << >>
    /\ feesPerGas = [maxFeePerGas |-> None, maxPriorityFeePerGas |-> None]
    /\ partialUserOpForEstimate = NoUserOp
    /\ partialUserOpHash = None
    /\ result = None
    /\ error = "none"
    /\ trace = << >>
    /\ signed = << >>
    /\ alchemyHexResult = None
    /\ PackIdle
    /\ HashIdle
    /\ parked = NotCalled

Next ==
    \/ BuildAndSignMultisigUserOp
    \/ GetAccountNonceReturns
    \/ EstimateFeesPerGasReturns
    \/ FetchReturns
    \/ EstimateUserOperationGasReturns
    \/ ReadContractReturns
    \/ SignMessageReturns
    \/ BuildMultiSigUserOpReturns

Spec == Init /\ [][Next]_vars

-----------------------------------------------------------------------------
(* buildMultiSigUserOp called on its own, on entries in two orderings *)

\* 65-byte raw signatures; the recovery byte also takes values no signer produces
PackSignatures ==
    { RS(<< 1, 1 >>, 0) \o ToHexSized(Some(v), 1).hex : v \in { 1, 27 } }
        \cup { RS(<< 10, 10 >>, 0) \o ToHexSized(Some(v), 1).hex : v \in { 28, 224 } }
PackEntries ==
    [signer : SignerAddrs, signature : PackSignatures, userOpSigType : { "ACTUAL", Undefined }]
PackUserOps ==
    { PartialUserOpWithGas(
          PartialUserOpForEstimate(PartialUserOp(WalletAddress, 5, CallData),
                                   [maxFeePerGas |-> Some(1000),
                                    maxPriorityFeePerGas |-> Some(7)], 0, 1, 1200),
          gasLimits) : gasLimits \in GasLimitResponses }

\* the orderings of 1..n
Orderings(n) == { p \in [1..n -> 1..n] : \A a, b \in 1..n : a # b => p[a] # p[b] }
Reorder(entries, p) == [k \in 1..Len(entries) |-> entries[p[k]]]

MainIdle ==
    /\ pc = "idle"
    /\ signerAddresses = << >>
    /\ gasFeesMultiplier = 1000
    /\ alchemyBundler = FALSE
    /\ partialUserOp = NoUserOp
    /\ partialUserOpWithGas = NoUserOp
    /\ userOpToSign = NoUserOp
    /\ i = 0
    /\ signatures = << >>
    /\ feesPerGas = [maxFeePerGas |-> None, maxPriorityFeePerGas |-> None]
    /\ partialUserOpForEstimate = NoUserOp
    /\ partialUserOpHash = None
    /\ result = None
    /\ error = "none"
    /\ trace = << >>
    /\ signed = << >>
    /\ alchemyHexResult = None

PackInit ==
    /\ MainIdle
    /\ HashIdle
    /\ parked = NotCalled
    /\ packPc = "input"
    /\ packUserOp \in PackUserOps
    /\ packA \in SeqsUpTo(PackEntries, MaxEntries)
    /\ \E p \in Orderings(Len(packA)) : packB = Reorder(packA, p)
    /\ packOutA = None
    /\ packOutB = None

\* lines 301-344, once per ordering
Pack ==
    /\ packPc = "input"
    /\ packPc' = "packed"
    /\ packOutA' = Some(BuildMultiSigUserOp(packUserOp, packA))
    /\ packOutB' = Some(BuildMultiSigUserOp(packUserOp, packB))
    /\ UNCHANGED << packUserOp, packA, packB >>
    /\ UNCHANGED << mainVars, hashVars, parked >>

PackNext == Pack

PackSpec == PackInit /\ [][PackNext]_vars

-----------------------------------------------------------------------------
(* getUserOpHash, lines 39-47, on gas and fee fields of up to 256 bits.  A bigint is the
   sequence of its base-65536 digits, most significant first and without leading zeros,
   so 0n is the empty sequence. *)

\* the four hexadecimal digits of one base-65536 digit
LimbToHex(limb) ==
    << limb \div 4096, (limb \div 256) % 16, (limb \div 16) % 16, limb % 16 >>

RECURSIVE LimbsToHex(_)
LimbsToHex(limbs) ==
    IF Len(limbs) = 0 THEN << >>
    ELSE LimbsToHex(SubSeq(limbs, 1, Len(limbs) - 1)) \o LimbToHex(limbs[Len(limbs)])

\* viem toHex(value) of a bigint: value.toString(16), '0x0' for 0n
BigIntToHex(big) ==
    IF Len(big) = 0 THEN << 0 >>
    ELSE ToHex(big[1]) \o LimbsToHex(SubSeq(big, 2, Len(big)))

RECURSIVE HexToBig(_)
\* BigInt('0x..') as a bigint of this section
HexToBig(h) ==
    IF Len(h) = 0 THEN << >>
    ELSE LET cut == IF Len(h) > 4 THEN Len(h) - 4 ELSE 0
             high == HexToBig(SubSeq(h, 1, cut))
             low == HexToBigInt(SubSeq(h, cut + 1, Len(h)))
         IN  IF Len(high) = 0 /\ low = 0 THEN << >> ELSE Append(high, low)

\* lines 39-42
AccountGasLimits(userOp) ==
    LET vgl == Pad(BigIntToHex(userOp.verificationGasLimit), 16)
        cgl == Pad(BigIntToHex(userOp.callGasLimit), 16)
    IN  [threw |-> vgl.threw \/ cgl.threw, hex |-> vgl.hex \o cgl.hex]

\* lines 44-47
GasFees(userOp) ==
    LET prio == Pad(BigIntToHex(userOp.maxPriorityFeePerGas), 16)
        maxFee == Pad(BigIntToHex(userOp.maxFeePerGas), 16)
    IN  [threw |-> prio.threw \/ maxFee.threw, hex |-> prio.hex \o maxFee.hex]

\* 0, 1, 2^16 + 1, 2^128 - 1, 2^128, 2^256 - 1
BigInts ==
    { << >>, << 1 >>, << 1, 1 >>, Fill(65535, 8), << 1 >> \o Fill(0, 8), Fill(65535, 16) }

HashUserOps ==
    { [PartialUserOp(WalletAddress, 5, CallData) EXCEPT
           !.verificationGasLimit = vgl, !.callGasLimit = cgl,
           !.maxPriorityFeePerGas = prio, !.maxFeePerGas = maxFee] :
      vgl \in BigInts, cgl \in BigInts, prio \in BigInts, maxFee \in BigInts }

HashInit ==
    /\ MainIdle
    /\ PackIdle
    /\ parked = NotCalled
    /\ hashPc = "input"
    /\ hashUserOp \in HashUserOps
    /\ hashOut = None

\* lines 30-47: getUserOpHash up to the packed operation; toHex and pad throw before any
\* call is made
GetUserOpHash ==
    /\ hashPc = "input"
    /\ hashPc' = "packed"
    /\ LET limits == AccountGasLimits(hashUserOp)
           fees == GasFees(hashUserOp)
       IN  hashOut' = Some([threw |-> limits.threw \/ fees.threw,
                            accountGasLimits |-> IF limits.threw THEN << >> ELSE limits.hex,
                            gasFees |-> IF fees.threw THEN << >> ELSE fees.hex])
    /\ UNCHANGED hashUserOp
    /\ UNCHANGED << mainVars, packVars, parked >>

HashNext == GetUserOpHash

HashSpec == HashInit /\ [][HashNext]_vars

-----------------------------------------------------------------------------
(* buildMultiSigUserOp called on entries whose raw signature may not be 65 bytes *)

\* raw signatures of 64, 65 and 66 bytes
PackAnySignatures ==
    { RS(<< 1, 1 >>, 0) \o tail : tail \in { << >>, << 1, 11 >>, << 1, 11, 0, 0 >> } }
PackAnyEntries ==
    [signer : { << 1, 1 >>, << 10, 10 >> }, signature : PackAnySignatures,
     userOpSigType : { "ACTUAL", Undefined }]

PackAnyInit ==
    /\ MainIdle
    /\ HashIdle
    /\ parked = NotCalled
    /\ packPc = "input"
    /\ packUserOp \in PackUserOps
    /\ packA \in SeqsUpTo(PackAnyEntries, MaxEntries)
    /\ packB = packA
    /\ packOutA = None
    /\ packOutB = None

PackAnySpec == PackAnyInit /\ [][PackNext]_vars

-----------------------------------------------------------------------------
(* Two invocations of buildAndSignMultisigUserOp on one event loop.  One of them runs, the
   other is suspended at an await with its locals in parked; the event loop resumes the
   other one at any await.  Each has its own signatures array (line 250) and its own
   operations; logAndExit ends the process for both. *)

ConcSigners == { << [address |-> << 1, 1 >>, privateKey |-> << "key", << 1, 1 >> >>] >> }
ConcMultipliers == { 500, 1200 }

\* the locals of an invocation not yet begun
Called(sa, m, ab) ==
    Locals("start", sa, m, ab, NoUserOp, NoUserOp, NoUserOp, 0, << >>,
           [maxFeePerGas |-> None, maxPriorityFeePerGas |-> None], NoUserOp, None, None,
           "none", << >>, << >>, None)

ConcInit ==
    /\ pc = "start"
    /\ signerAddresses \in ConcSigners
    /\ gasFeesMultiplier \in ConcMultipliers
    /\ alchemyBundler \in BOOLEAN
    /\ partialUserOp = NoUserOp
    /\ partialUserOpWithGas = NoUserOp
    /\ userOpToSign = NoUserOp
    /\ i = 0
    /\ signatures = << >>
    /\ feesPerGas = [maxFeePerGas |-> None, maxPriorityFeePerGas |-> None]
    /\ partialUserOpForEstimate = NoUserOp
    /\ partialUserOpHash = None
    /\ result = None
    /\ error = "none"
    /\ trace = << >>
    /\ signed = << >>
    /\ alchemyHexResult = None
    /\ PackIdle
    /\ HashIdle
    /\ \E sa \in ConcSigners, m \in ConcMultipliers, ab \in BOOLEAN : parked = Called(sa, m, ab)

\* the running invocation is at an await, or has settled, and the event loop resumes the
\* other one; nothing runs once logAndExit has ended the process
Switch ==
    /\ pc # "exited"
    /\ parked.pc \notin { "idle", "exited" }
    /\ parked' = Locals(pc, signerAddresses, gasFeesMultiplier, alchemyBundler,
                        partialUserOp, partialUserOpWithGas, userOpToSign, i, signatures,
                        feesPerGas, partialUserOpForEstimate, partialUserOpHash, result,
                        error, trace, signed, alchemyHexResult)
    /\ pc' = parked.pc
    /\ signerAddresses' = parked.signerAddresses
    /\ gasFeesMultiplier' = parked.gasFeesMultiplier
    /\ alchemyBundler' = parked.alchemyBundler
    /\ partialUserOp' = parked.partialUserOp
    /\ partialUserOpWithGas' = parked.partialUserOpWithGas
    /\ userOpToSign' = parked.userOpToSign
    /\ i' = parked.i
    /\ signatures' = parked.signatures
    /\ feesPerGas' = parked.feesPerGas
    /\ partialUserOpForEstimate' = parked.partialUserOpForEstimate
    /\ partialUserOpHash' = parked.partialUserOpHash
    /\ result' = parked.result
    /\ error' = parked.error
    /\ trace' = parked.trace
    /\ signed' = parked.signed
    /\ alchemyHexResult' = parked.alchemyHexResult
    /\ UNCHANGED << packVars, hashVars >>

ConcNext ==
    \/ BuildAndSignMultisigUserOp
    \/ GetAccountNonceReturns
    \/ EstimateFeesPerGasReturns
    \/ FetchReturns
    \/ EstimateUserOperationGasReturns
    \/ ReadContractReturns
    \/ SignMessageReturns
    \/ BuildMultiSigUserOpReturns
    \/ Switch

ConcSpec == ConcInit /\ [][ConcNext]_vars

-----------------------------------------------------------------------------
(* Reading a packed signature field and the history *)

\* the k-th 65-byte block of a signature field, its r||s and its recovery byte
Block(sig, k) == SubSeq(sig, 130 * (k - 1) + 1, 130 * k)
BlockRS(sig, k) == SubSeq(Block(sig, k), 1, 128)
BlockV(sig, k) == HexToBigInt(SubSeq(Block(sig, k), 129, 130))
\* r||s and v of a 65-byte raw signature
RawRS(raw) == SubSeq(raw, 1, 128)
RawV(raw) == HexToBigInt(SubSeq(raw, 129, 130))

TraceIdx(call) == { p \in DOMAIN trace : trace[p].call = call }
NetworkCalls ==
    { "getAccountNonce", "estimateFeesPerGas", "fetch", "estimateUserOperationGas",
      "readContract" }
ZeroGasAndFees(userOp) ==
    /\ userOp.maxPriorityFeePerGas = 0
    /\ userOp.maxFeePerGas = 0
    /\ userOp.callGasLimit = 0
    /\ userOp.verificationGasLimit = 0
    /\ userOp.preVerificationGas = 0
SameGasAndFees(a, b) ==
    /\ a.maxPriorityFeePerGas = b.maxPriorityFeePerGas
    /\ a.maxFeePerGas = b.maxFeePerGas
    /\ a.callGasLimit = b.callGasLimit
    /\ a.verificationGasLimit = b.verificationGasLimit
    /\ a.preVerificationGas = b.preVerificationGas

\* the packed field holds one block per signature made, the raw r||s and v of each, the
\* v of the signature made last raised by 32
OneBlockPerSignature(sig) ==
    /\ Len(sig) = 130 * Len(signed)
    /\ \E p \in Orderings(Len(signed)) :
         \A j \in 1..Len(signed) :
            /\ BlockRS(sig, p[j]) = RawRS(signed[j].signature)
            /\ BlockV(sig, p[j]) =
                   RawV(signed[j].signature) + (IF j = Len(signed) THEN 32 ELSE 0)

-----------------------------------------------------------------------------
(* Claims *)

\* C1: in a successful run with N >= 1 signers the packed field holds N blocks, one per
\* signature made; the block of the signature made last, the one over the operation the
\* estimator returned, carries the raw v plus 32, and every other block its raw v.
C1_OneFinalBlock ==
    (pc = "done" /\ numSigners >= 1) =>
        /\ Len(signed) = numSigners
        /\ OneBlockPerSignature(result[1].signature)
        /\ \E q \in TraceIdx("estimateUserOp.return") :
             trace[q].userOp = signed[numSigners].userOp

\* C1, witness: two signers, the one who signed last has the lower address, so that the
\* first block is the one raised by 32
C1_Witness ==
    /\ pc = "done"
    /\ numSigners = 2
    /\ HexToBigInt(signed[2].signer) < HexToBigInt(signed[1].signer)
    /\ BlockV(result[1].signature, 1) = RawV(signed[2].signature) + 32
    /\ BlockV(result[1].signature, 2) = RawV(signed[1].signature)

\* C2: with N >= 1 signers the estimator is entered at most once, at the last signer index,
\* and exactly once in a run that completes; the hash read and the signing of the last
\* signer come after the estimator's return; the hash read and the signing of every earlier
\* signer come before the estimator is entered and are over the base operation, whose five
\* gas and fee fields are zero.
C2_EstimateOnceAtLastSigner ==
    LET est == TraceIdx("estimateFeesPerGas")
        ret == TraceIdx("estimateUserOp.return")
    IN  numSigners >= 1 =>
            /\ Cardinality(est) <= 1
            /\ Cardinality(ret) <= 1
            /\ \A q \in est : trace[q].i = numSigners - 1
            /\ pc = "done" => Cardinality(est) = 1 /\ Cardinality(ret) = 1
            /\ \A p \in DOMAIN trace :
                 trace[p].call \in { "readContract", "signMessage", "signMessage.return" } =>
                     IF trace[p].i = numSigners - 1
                     THEN \E q \in ret : q < p /\ trace[p].userOp = trace[q].userOp
                     ELSE /\ \A q \in est : p < q
                          /\ trace[p].userOp = partialUserOp
                          /\ ZeroGasAndFees(trace[p].userOp)
            /\ \A q \in est : \A j \in 0..(numSigners - 2) :
                 \A call \in { "readContract", "signMessage", "signMessage.return" } :
                     \E p \in 1..(q - 1) : trace[p].call = call /\ trace[p].i = j

\* C2, witness: a completed run with two signers, the first signed before the estimator
\* was entered
C2_Witness ==
    /\ pc = "done"
    /\ numSigners = 2
    /\ \E p \in TraceIdx("signMessage.return"), q \in TraceIdx("estimateFeesPerGas") :
         trace[p].i = 0 /\ p < q

\* C3: a run either returns an operation whose gas limits and fees are those the estimator
\* returned and whose signature is the packing of one real signature per signer, or it
\* fails and returns nothing.
C3_NoPartialSuccess ==
    /\ pc = "done" =>
          /\ result # None
          /\ \E q \in TraceIdx("estimateUserOp.return") :
               SameGasAndFees(result[1], trace[q].userOp)
          /\ result[1].signature # << >>
          /\ Len(signed) = numSigners
          /\ OneBlockPerSignature(result[1].signature)
    /\ pc \in { "exited", "rejected" } => result = None

\* C4: with a multiplier below 1 the build of a non-empty signer list never succeeds, and
\* when it fails with InvalidConfig no network call (nonce fetch, fee-oracle fetch, provider
\* query, gas estimation, hash read) has been attempted.
C4_InvalidConfigBeforeNetwork ==
    (gasFeesMultiplier < 1000 /\ numSigners >= 1) =>
        /\ pc # "done"
        /\ error = "InvalidConfig" =>
               \A p \in DOMAIN trace : trace[p].call \notin NetworkCalls

\* C5: once the nonce fetched is 0 the run has failed with UndeployedAccount, nothing is
\* returned, and no hash read, fee estimation or signing was started.
C5_NonceZeroFails ==
    \A p \in TraceIdx("getAccountNonce.return") :
        trace[p].userOp.nonce = 0 =>
            /\ pc = "exited"
            /\ error = "UndeployedAccount"
            /\ result = None
            /\ signed = << >>
            /\ signatures = << >>
            /\ \A q \in DOMAIN trace :
                 trace[q].call \in { "getAccountNonce", "getAccountNonce.return" }

\* C5, witness: nonce 0 with two signers and a valid multiplier
C5_Witness ==
    /\ pc = "exited"
    /\ error = "UndeployedAccount"
    /\ numSigners = 2
    /\ gasFeesMultiplier = 1200
    /\ \E p \in TraceIdx("getAccountNonce.return") : trace[p].userOp.nonce = 0

\* C8: in the field a successful run returns, the blocks are in ascending order of the
\* address their signature recovers to, and hold each listed signer as often as listed.
C8_AscendingSignerOrder ==
    pc = "done" =>
        LET sig == result[1].signature
        IN  /\ Len(sig) = 130 * numSigners
            /\ \A k \in 1..(numSigners - 1) :
                 HexToBigInt(Recover(Block(sig, k))) <= HexToBigInt(Recover(Block(sig, k + 1)))
            /\ \A a \in SignerAddrs :
                 Cardinality({ k \in 1..numSigners : Recover(Block(sig, k)) = a })
                     = Cardinality({ j \in 1..numSigners : signerAddresses[j].address = a })

\* C8, witness: 0xaa listed before 0x11, and the block of 0x11 is first
C8_Witness ==
    /\ pc = "done"
    /\ numSigners = 2
    /\ signerAddresses[1].address = << 10, 10 >>
    /\ signerAddresses[2].address = << 1, 1 >>
    /\ Recover(Block(result[1].signature, 1)) = << 1, 1 >>
    /\ Recover(Block(result[1].signature, 2)) = << 10, 10 >>

\* C9: when the fee oracle answered with two non-negative integers and the multiplier is
\* at least 1, the estimator does not fail for missing fees, and the fees it sends on are
\* floor(fee * (100 + round((multiplier - 1) * 100)) / 100), not below the fee.
C9_ScalingSucceeds ==
    (/\ feesPerGas.maxFeePerGas # None
     /\ feesPerGas.maxPriorityFeePerGas # None
     /\ gasFeesMultiplier >= 1000) =>
        /\ error # "FeeFetchError"
        /\ \A p \in TraceIdx("estimateUserOperationGas") :
             \E pct \in 0..100 :
                /\ 10 * pct - (gasFeesMultiplier - 1000) \in -4..5
                /\ LET fee == feesPerGas.maxFeePerGas[1]
                       scaled == trace[p].userOp.maxFeePerGas
                   IN  /\ 100 * scaled <= fee * (100 + pct)
                       /\ fee * (100 + pct) < 100 * (scaled + 1)
                       /\ scaled >= fee
                /\ ~alchemyBundler =>
                       LET fee == feesPerGas.maxPriorityFeePerGas[1]
                           scaled == trace[p].userOp.maxPriorityFeePerGas
                       IN  /\ 100 * scaled <= fee * (100 + pct)
                           /\ fee * (100 + pct) < 100 * (scaled + 1)
                           /\ scaled >= fee

\* C10: the operation the estimator returns has an empty signature, every operation handed
\* to the hasher has an empty signature, and the signature of the returned operation holds
\* the placeholder block at no offset.
C10_PlaceholderOnlyInEstimation ==
    /\ \A p \in TraceIdx("estimateUserOp.return") : trace[p].userOp.signature = << >>
    /\ \A p \in TraceIdx("readContract") : trace[p].userOp.signature = << >>
    /\ result # None =>
          \A o \in 0..(Len(result[1].signature) - 130) :
              SubSeq(result[1].signature, o + 1, o + 130) # PlaceholderBlock

\* C10, witness: a completed run with two signers whose gas estimation call carried the
\* placeholder
C10_Witness ==
    /\ pc = "done"
    /\ numSigners = 2
    /\ \E p \in TraceIdx("estimateUserOperationGas") :
         trace[p].userOp.signature = PlaceholderBlock \o PlaceholderBlock

-----------------------------------------------------------------------------
(* Claims about the packer alone, under PackSpec *)

DistinctSigners(entries) ==
    \A a, b \in 1..Len(entries) :
        a # b => HexToBigInt(entries[a].signer) # HexToBigInt(entries[b].signer)
\* an entry marked ACTUAL whose raw v plus 32 is no byte
FinalVOverflows(entries) ==
    \E k \in 1..Len(entries) :
        entries[k].userOpSigType = "ACTUAL" /\ RawV(entries[k].signature) > 223

\* C6 as stated: for N >= 1 entries with 65-byte raw signatures the packer produces a
\* field of exactly 65*N bytes.
C6_AlwaysPacks65N ==
    (packPc = "packed" /\ Len(packA) >= 1) =>
        /\ ~packOutA[1].threw
        /\ Len(packOutA[1].userOp.signature) = 130 * Len(packA)

\* C6 amended: for N >= 1 entries with 65-byte raw signatures, when no entry marked ACTUAL
\* has a raw v above 223 the field is exactly 65*N bytes, each block the 64 bytes r||s of
\* an entry and one byte of its adjusted v; otherwise the packer throws.
C6_PackedLength ==
    (packPc = "packed" /\ Len(packA) >= 1) =>
        LET out == packOutA[1]
            sig == out.userOp.signature
        IN  IF FinalVOverflows(packA)
            THEN out.threw
            ELSE /\ ~out.threw
                 /\ Len(sig) = 130 * Len(packA)
                 /\ \A k \in 1..Len(packA) :
                      /\ Len(Block(sig, k)) = 130
                      /\ BlockRS(sig, k) = RawRS(out.signatures[k].signature)
                      /\ BlockV(sig, k) =
                             RawV(out.signatures[k].signature)
                                 + (IF out.signatures[k].userOpSigType = "ACTUAL"
                                    THEN 32 ELSE 0)

\* C6, witness: two entries, one of them ACTUAL, packed
C6_Witness ==
    /\ packPc = "packed"
    /\ Len(packA) = 2
    /\ \E k \in 1..2 : packA[k].userOpSigType = "ACTUAL"
    /\ ~packOutA[1].threw
    /\ Len(packOutA[1].userOp.signature) = 260

\* C7 as stated: two orderings of the same entries pack to the same field.
C7_AnyOrderSameOutput ==
    packPc = "packed" =>
        /\ packOutA[1].threw = packOutB[1].threw
        /\ packOutA[1].userOp = packOutB[1].userOp

\* C7 amended: two orderings of entries with pairwise distinct signer addresses pack to
\* the same field, and packing the sorted list again gives the same field.
C7_OrderIndependent ==
    packPc = "packed" =>
        /\ DistinctSigners(packA) =>
               /\ packOutA[1].threw = packOutB[1].threw
               /\ packOutA[1].userOp = packOutB[1].userOp
               /\ packOutA[1].signatures = packOutB[1].signatures
        /\ LET again == BuildMultiSigUserOp(packUserOp, packOutA[1].signatures)
           IN  /\ again.threw = packOutA[1].threw
               /\ again.userOp = packOutA[1].userOp

\* C7, witness: two entries of distinct signers given in both orders, the first ordering
\* not the sorted one
C7_Witness ==
    /\ packPc = "packed"
    /\ Len(packA) = 2
    /\ DistinctSigners(packA)
    /\ packA # packB
    /\ packA # packOutA[1].signatures
    /\ ~packOutA[1].threw
    /\ packOutA[1].userOp = packOutB[1].userOp

-----------------------------------------------------------------------------
(* Claims about the estimator inside buildAndSign *)

\* scaled is floor(fee * (100 + round((m - 1) * 100)) / 100), m in thousandths
IsScaledFee(fee, scaled, m) ==
    \E pct \in 0..100 :
        /\ 10 * pct - (m - 1000) \in -4..5
        /\ 100 * scaled <= fee * (100 + pct)
        /\ fee * (100 + pct) < 100 * (scaled + 1)

\* C11: the operation sent to the gas-estimation RPC carries one placeholder block per
\* listed signer, 65*N bytes whatever the number of signatures collected so far (N - 1),
\* the scaled fees, and zero gas limits.
C11_PlaceholderSizedForAllSigners ==
    \A p \in TraceIdx("estimateUserOperationGas") :
        LET op == trace[p].userOp
        IN  /\ Len(op.signature) = 130 * numSigners
            /\ \A k \in 1..numSigners : Block(op.signature, k) = PlaceholderBlock
            /\ Len(signed) >= numSigners - 1
            /\ trace[p].i = numSigners - 1
            /\ op.callGasLimit = 0
            /\ op.verificationGasLimit = 0
            /\ op.preVerificationGas = 0
            /\ IsScaledFee(feesPerGas.maxFeePerGas[1], op.maxFeePerGas, gasFeesMultiplier)
            /\ \/ IsScaledFee(feesPerGas.maxPriorityFeePerGas[1], op.maxPriorityFeePerGas,
                              gasFeesMultiplier)
               \/ /\ alchemyBundler
                  /\ alchemyHexResult # None
                  /\ op.maxPriorityFeePerGas = HexToBigInt(alchemyHexResult[1])

\* C11, witness: two signers, one signature collected, and the estimation call pending
\* with a placeholder of 130 bytes
C11_Witness ==
    /\ pc = "estimateUserOperationGas"
    /\ numSigners = 2
    /\ Len(signed) = 1
    /\ Len(partialUserOpForEstimate.signature) = 260
    /\ \E p \in TraceIdx("estimateUserOperationGas") :
         trace[p].userOp = partialUserOpForEstimate

\* the scaled fee, floor(fee * (100 + round((m - 1) * 100)) / 100), is at most limit
ScaledFeeAtMost(fee, limit, m) ==
    \E pct \in 0..100 :
        /\ 10 * pct - (m - 1000) \in -4..5
        /\ fee * (100 + pct) < 100 * (limit + 1)

\* the provider's minimum priority fee as the estimator reads it
ProviderMinimum == IF alchemyHexResult # None THEN HexToBigInt(alchemyHexResult[1]) ELSE 0

\* C12: when the provider's minimum-priority-fee query throws or answers without a result,
\* the run fails with ProviderQueryError and returns nothing; the estimator does not go on
\* to the gas estimation with a minimum of zero.
C12_ProviderFailureIsFatal ==
    /\ \A p \in TraceIdx("fetch.return") :
         alchemyHexResult = None =>
             /\ pc = "rejected"
             /\ error = "ProviderQueryError"
             /\ result = None
             /\ TraceIdx("estimateUserOperationGas") = { }
    /\ error = "ProviderQueryError" =>
           /\ result = None
           /\ TraceIdx("estimateUserOperationGas") = { }

\* C13: the operation the estimator returns has the scaled max fee as maxFeePerGas; its
\* maxPriorityFeePerGas is the larger of the scaled priority fee and the provider's minimum
\* when the bundler is the known provider, and the scaled priority fee otherwise; the
\* provider is queried exactly when the bundler is the known provider.
C13_PriorityFeeFloor ==
    \A p \in TraceIdx("estimateUserOp.return") :
        LET op == trace[p].userOp
            fee == feesPerGas.maxPriorityFeePerGas[1]
        IN  /\ IsScaledFee(feesPerGas.maxFeePerGas[1], op.maxFeePerGas, gasFeesMultiplier)
            /\ IF alchemyBundler
               THEN /\ TraceIdx("fetch") # { }
                    /\ op.maxPriorityFeePerGas >= ProviderMinimum
                    /\ \/ IsScaledFee(fee, op.maxPriorityFeePerGas, gasFeesMultiplier)
                       \/ /\ op.maxPriorityFeePerGas = ProviderMinimum
                          /\ ScaledFeeAtMost(fee, ProviderMinimum, gasFeesMultiplier)
               ELSE /\ TraceIdx("fetch") = { }
                    /\ IsScaledFee(fee, op.maxPriorityFeePerGas, gasFeesMultiplier)

\* C13, witness: the known provider asks for at least 2000 where the scaled priority fee
\* is 8, and the returned operation carries 2000 and the scaled max fee 1200
C13_Witness ==
    /\ pc = "done"
    /\ alchemyBundler
    /\ gasFeesMultiplier = 1200
    /\ feesPerGas = [maxFeePerGas |-> Some(1000), maxPriorityFeePerGas |-> Some(7)]
    /\ alchemyHexResult = Some(<< 7, 13, 0 >>)
    /\ result[1].maxPriorityFeePerGas = 2000
    /\ result[1].maxFeePerGas = 1200

\* C20: when the fee oracle answers maxPriorityFeePerGas <= maxFeePerGas, the operation
\* the estimator returns, and the one the run returns, has
\* maxPriorityFeePerGas <= maxFeePerGas.
C20_FeeOrderPreserved ==
    (/\ feesPerGas.maxFeePerGas # None
     /\ feesPerGas.maxPriorityFeePerGas # None
     /\ feesPerGas.maxPriorityFeePerGas[1] <= feesPerGas.maxFeePerGas[1]) =>
        /\ \A p \in TraceIdx("estimateUserOp.return") :
             trace[p].userOp.maxPriorityFeePerGas <= trace[p].userOp.maxFeePerGas
        /\ result # None => result[1].maxPriorityFeePerGas <= result[1].maxFeePerGas

-----------------------------------------------------------------------------
(* Claims about what the packer and the run carry over *)

SameExceptSignature(a, b) == [a EXCEPT !.signature = << >>] = [b EXCEPT !.signature = << >>]
SameCall(a, b) ==
    /\ a.sender = b.sender
    /\ a.nonce = b.nonce
    /\ a.callData = b.callData
SameAccountAndCall(a, b) ==
    /\ SameCall(a, b)
    /\ a.factory = b.factory
    /\ a.factoryData = b.factoryData

\* C15: a call of the packer leaves the operation it was given as it was, and the operation
\* it returns equals the given one in every field but the signature.
C15_OnlySignatureChanges ==
    [][Pack =>
         /\ packUserOp' = packUserOp
         /\ ~packOutA'[1].threw => SameExceptSignature(packOutA'[1].userOp, packUserOp)
         /\ ~packOutB'[1].threw => SameExceptSignature(packOutB'[1].userOp, packUserOp)]_vars

\* C15, witness: the packer returned an operation with a new signature and the gas limits
\* and fees of the given one
C15_Witness ==
    /\ packPc = "packed"
    /\ Len(packA) >= 1
    /\ ~packOutA[1].threw
    /\ packOutA[1].userOp.signature # packUserOp.signature
    /\ packOutA[1].userOp.callGasLimit = packUserOp.callGasLimit
    /\ packUserOp.callGasLimit > 0
    /\ packUserOp.maxFeePerGas > 0

\* C16: when the packer returns, the blocks of the signature field, read in order, are the
\* entries in ascending order of signer address: block k holds the r||s of its entry and
\* the entry's raw v, raised by 32 exactly when the entry is marked ACTUAL.
C16_RoundTrip ==
    (packPc = "packed" /\ ~packOutA[1].threw) =>
        LET sig == packOutA[1].userOp.signature
            n == Len(packA)
        IN  /\ Len(sig) = 130 * n
            /\ \E p \in Orderings(n) :
                 /\ \A k \in 1..(n - 1) :
                      HexToBigInt(packA[p[k]].signer) <= HexToBigInt(packA[p[k + 1]].signer)
                 /\ \A k \in 1..n :
                      /\ BlockRS(sig, k) = RawRS(packA[p[k]].signature)
                      /\ BlockV(sig, k) =
                             RawV(packA[p[k]].signature)
                                 + (IF packA[p[k]].userOpSigType = "ACTUAL" THEN 32 ELSE 0)

\* C16, witness: two entries given in descending address order, the first marked ACTUAL,
\* and the field read back has the second entry first
C16_Witness ==
    /\ packPc = "packed"
    /\ Len(packA) = 2
    /\ HexToBigInt(packA[1].signer) > HexToBigInt(packA[2].signer)
    /\ packA[1].userOpSigType = "ACTUAL"
    /\ packA[2].userOpSigType # "ACTUAL"
    /\ packA[1].signature # packA[2].signature
    /\ ~packOutA[1].threw
    /\ BlockRS(packOutA[1].userOp.signature, 1) = RawRS(packA[2].signature)
    /\ BlockV(packOutA[1].userOp.signature, 2) = RawV(packA[1].signature) + 32

\* C19: the operation a run with N >= 1 signers returns equals, but for the signature, the
\* operation the last signer signed; it has the sender, nonce and call data of the base
\* operation, which is what every earlier signer signed; and the estimator returns the
\* sender, nonce, factory, factoryData and callData it was given.
C19_ReturnedIsWhatWasSigned ==
    /\ (pc = "done" /\ numSigners >= 1) =>
           /\ Len(signed) = numSigners
           /\ SameExceptSignature(result[1], signed[numSigners].userOp)
           /\ SameCall(result[1], partialUserOp)
           /\ \A j \in 1..(numSigners - 1) : signed[j].userOp = partialUserOp
    /\ \A p \in TraceIdx("estimateUserOp.return") :
           /\ SameAccountAndCall(trace[p].userOp, partialUserOp)
           /\ \A q \in TraceIdx("estimateFeesPerGas") :
                SameAccountAndCall(trace[p].userOp, trace[q].userOp)

\* C19, witness: a run of two signers returned an operation with gas limits and fees, the
\* first signer having signed the base operation
C19_Witness ==
    /\ pc = "done"
    /\ numSigners = 2
    /\ result[1].callGasLimit > 0
    /\ result[1].maxFeePerGas > 0
    /\ result[1].callData = CallData
    /\ signed[1].userOp = partialUserOp
    /\ signed[2].userOp # partialUserOp
    /\ Len(result[1].signature) = 260

\* C14: when an entry's raw signature is not exactly 65 bytes the packer throws and
\* returns no operation.
C14_MalformedRejected ==
    (packPc = "packed" /\ \E k \in 1..Len(packA) : Len(packA[k].signature) # 130) =>
        packOutA[1].threw

-----------------------------------------------------------------------------
(* Claims about the hasher's packed gas fields *)

\* a bigint below 2^128
FitsIn128Bits(big) == Len(big) <= 8
\* the 16-byte field number k of a 32-byte pair, read as a bigint
Field16(pair, k) == HexToBig(SubSeq(pair, 32 * (k - 1) + 1, 32 * k))
PackedFieldsAreExact ==
    /\ ~hashOut[1].threw
    /\ Len(hashOut[1].accountGasLimits) = 64
    /\ Len(hashOut[1].gasFees) = 64
    /\ Field16(hashOut[1].accountGasLimits, 1) = hashUserOp.verificationGasLimit
    /\ Field16(hashOut[1].accountGasLimits, 2) = hashUserOp.callGasLimit
    /\ Field16(hashOut[1].gasFees, 1) = hashUserOp.maxPriorityFeePerGas
    /\ Field16(hashOut[1].gasFees, 2) = hashUserOp.maxFeePerGas

\* C17 as stated: for gas and fee fields of up to 256 bits the hasher builds
\* accountGasLimits and gasFees of 32 bytes each, every 16-byte half holding its field.
C17_AlwaysThirtyTwoBytes == hashPc = "packed" => PackedFieldsAreExact

\* C17 amended: when the four fields are below 2^128 the hasher builds accountGasLimits
\* and gasFees of 32 bytes each, verificationGasLimit then callGasLimit and
\* maxPriorityFeePerGas then maxFeePerGas, every 16-byte half holding its field; when one
\* of them is 2^128 or more the hasher throws.
C17_ThirtyTwoBytesBelow2To128 ==
    hashPc = "packed" =>
        IF /\ FitsIn128Bits(hashUserOp.verificationGasLimit)
           /\ FitsIn128Bits(hashUserOp.callGasLimit)
           /\ FitsIn128Bits(hashUserOp.maxPriorityFeePerGas)
           /\ FitsIn128Bits(hashUserOp.maxFeePerGas)
        THEN PackedFieldsAreExact
        ELSE hashOut[1].threw

\* C17, witness: the fields 2^128 - 1, 1, 0 and 2^16 + 1 packed
C17_Witness ==
    /\ hashPc = "packed"
    /\ hashUserOp.verificationGasLimit = Fill(65535, 8)
    /\ hashUserOp.callGasLimit = << 1 >>
    /\ hashUserOp.maxPriorityFeePerGas = << >>
    /\ hashUserOp.maxFeePerGas = << 1, 1 >>
    /\ ~hashOut[1].threw
    /\ hashOut[1].accountGasLimits = Fill(15, 32) \o Fill(0, 31) \o << 1 >>
    /\ hashOut[1].gasFees = Fill(0, 32) \o Fill(0, 27) \o << 1, 0, 0, 0, 1 >>

-----------------------------------------------------------------------------
(* Claims about two invocations on one event loop *)

Settled == { "done", "rejected", "exited" }

\* C18: an invocation that has begun is never stopped short of its own outcome by the
\* other one: when one invocation has ended in logAndExit, the other has either settled
\* or not begun.
C18_InvocationsIndependent ==
    pc = "exited" => parked.pc \in Settled \cup { "start" }

====
